---- MODULE Spec2Model ----
(***************************************************************************)
(* Model of backend/trading_backend.py: the ledger (cash accounts, stocks, *)
(* holdings, orders, transactions), the market clock and the order         *)
(* execution engine, run by concurrent request handlers.                   *)
(*                                                                         *)
(* Every handler opens its own database session.  A step of the model is   *)
(* one database round trip (one awaited statement or commit) of one        *)
(* handler.  SELECT ... FOR UPDATE takes an exclusive row lock that is     *)
(* kept until the session commits or closes; a plain SELECT takes none.    *)
(* The ORM keeps the values it read in the session and writes the values   *)
(* computed from them at commit.                                           *)
(*                                                                         *)
(* Quantities, prices and amounts are Float columns in the source; here    *)
(* they are naturals, so rounding is outside the model.                    *)
(***************************************************************************)
EXTENDS Integers, Sequences, FiniteSets, TLC

\* ------------------------------------------------------------------ bounds
\* Number of accepted API calls in one behaviour, with two request handlers
\* running concurrently (Spec), with one (SpecSeq), and with one that also
\* takes orders for the second ticker (SpecTickers).
MaxOps == 3
MaxSeqOps == 4
MaxTickerOps == 3
\* Number of accepted API calls under SpecFair, where two handlers start from
\* a ledger in which user 1 already holds shares and has an order pending.
MaxFairOps == 2

\* The request handlers of the server.
Procs == {1, 2}

\* ------------------------------------------------------- data of the runs
\* Python None / SQL NULL in a numeric column.
None == 0 - 1

\* Users and stocks created by create_user / create_stock before trading.
Users == {1, 2}
Tickers == {"A", "B"}

\* The calls the clients make: the argument tuples of each API function.
\* User 9 is a user_id no create_user has returned.
\* (user_id, amount)
DepositArgs == {<<1, 1>>, <<1, 0>>, <<9, 3>>}
WithdrawArgs == {<<1, 2>>, <<2, 4>>, <<1, 0>>, <<9, 2>>}
\* (user_id, ticker, quantity, side, order_type, price)
OrderArgs ==
    { <<1, "a", 2, "buy", "market", None>>,
      <<1, "A", 1, "buy", "limit", 2>>,
      <<1, "A", 1, "SELL", "limit", 2>>,
      <<1, "A", 2, "sell", "market", None>>,
      <<1, "A", 0, "buy", "market", None>>,
      <<1, "A", 1, "hold", "market", None>>,
      <<1, "A", 1, "buy", "stop", 2>>,
      <<1, "A", 1, "buy", "limit", None>>,
      <<1, "A", 1, "sell", "limit", 0>>,
      <<9, "A", 1, "buy", "market", None>>,
      <<1, "ZZZ", 1, "buy", "market", None>> }
\* Orders for the second ticker: the calls a run takes beyond OrderArgs are
\* those of its limits.orders, which is this set under SpecTickers only.
OrderArgsB == { <<1, "b", 1, "buy", "market", None>> }
\* (ticker, new_price)
NewPriceArgs == {<<"A", 2>>, <<"a", 3>>, <<"A", 0>>, <<"ZZZ", 2>>}
OrderIdArgs == 1..MaxSeqOps

\* str.upper() / str.lower() on the strings that occur.
upper(s) ==
    CASE s = "a" -> "A"
      [] s = "b" -> "B"
      [] s = "zzz" -> "ZZZ"
      [] OTHER -> s

lower(s) ==
    CASE s = "BUY" -> "buy"
      [] s = "SELL" -> "sell"
      [] s = "HOLD" -> "hold"
      [] s = "MARKET" -> "market"
      [] s = "LIMIT" -> "limit"
      [] OTHER -> s

\* ------------------------------------------------------------ market clock
\* An instant: calendar date, weekday (Monday = 0) and time of day.  Time of
\* day is counted in ticks; MarketSettings' defaults 09:30 and 16:00 are the
\* ticks 1 and 2.
\* datetime.utcnow() is read afresh by every is_market_open() call: the instant
\* is an input of that step.
Instants ==
    { [date |-> 1, weekday |-> 4, time |-> 0],
      [date |-> 1, weekday |-> 4, time |-> 1],
      [date |-> 1, weekday |-> 4, time |-> 2],
      [date |-> 2, weekday |-> 5, time |-> 1],
      [date |-> 3, weekday |-> 6, time |-> 1],
      [date |-> 4, weekday |-> 0, time |-> 1] }

\* The MarketSettings row: the default hours (_get_market_settings) and the
\* holidays the administrator configured with set_holidays before trading.
MarketSettingsRow == [open_time |-> 1, close_time |-> 2, holidays |-> {4}]

VARIABLES
    stocks,           \* ticker -> [available_shares, price]
    cash,             \* user_id -> balance of the CashAccount row
    holdings,         \* the holdings table: sequence of rows
    orders,           \* the orders table: order id -> row
    transactions,     \* the transactions table, in insertion order
    procs,            \* handler -> its session and position
    nops,             \* accepted API calls so far
    limits            \* [ops, handlers, orders]: the bounds of this run

vars == <<stocks, cash, holdings, orders, transactions, procs, nops, limits>>

ledger == <<stocks, cash, holdings, orders, transactions>>

\* ----------------------------------------------------------------- helpers
Row(kind, n, t) == [kind |-> kind, n |-> n, t |-> t]
OrderRow(oid) == Row("order", oid, "")
StockRow(t) == Row("stock", 0, t)
CashRow(u) == Row("cash", u, "")
HoldingRow(u, t) == Row("holding", u, t)

\* A handler between calls.  balance, available_shares, holding, quantity and
\* fill_price are the values its session has read; held are its row locks.
\* swept, closed and due are bookkeeping of a sweep for the properties below:
\* the ids it selected, the ids it found the market closed for, and the limit
\* sells that were due to fill when update_stock_price was called.
Idle ==
    [op |-> "idle", pc |-> "idle", oid |-> 0, ids |-> <<>>, user |-> 0,
     ticker |-> "", amount |-> 0, balance |-> 0, available_shares |-> 0,
     holding |-> 0, quantity |-> 0, fill_price |-> None, market |-> "unread",
     held |-> {}, ret |-> "none", swept |-> <<>>, closed |-> {}, due |-> {}]

\* Variant: a select that waits for no lock.
LockFreeNever(p, row) == TRUE

\* with_for_update(): the row lock is granted when no other session holds it.
LockFree(p, row) == \A q \in Procs \ {p} : row \notin procs[q].held

\* Holding rows of (u, t), and the row .first() returns (0 when none).
HoldingIdx(hs, u, t) == {i \in 1..Len(hs) : hs[i].user_id = u /\ hs[i].ticker = t}

HoldingFirst(hs, u, t) ==
    IF HoldingIdx(hs, u, t) = {} THEN 0
    ELSE CHOOSE i \in HoldingIdx(hs, u, t) : \A j \in HoldingIdx(hs, u, t) : i <= j

\* The orders in which a SELECT without ORDER BY may return the rows S.
RowOrders(S) ==
    {s \in [1..Cardinality(S) -> S] : \A i, j \in 1..Cardinality(S) : i # j => s[i] # s[j]}

\* Variant: the market is still open at close_time.
is_market_open_AtClose(at, ms) ==
    IF at.date \in ms.holidays THEN FALSE
    ELSE IF at.weekday >= 5 THEN FALSE
    ELSE ms.open_time <= at.time /\ at.time <= ms.close_time

\* is_market_open(): holiday, weekend, then open_t <= t < close_t.
is_market_open(at, ms) ==
    IF at.date \in ms.holidays THEN FALSE
    ELSE IF at.weekday >= 5 THEN FALSE
    ELSE ms.open_time <= at.time /\ at.time < ms.close_time

\* ----------------------------------------------------------------- initial
\* The ledger after setup: create_user for each user, create_stock for each
\* ticker (total_shares 2, initial_price 1) and user 1's first deposit of 3.
TotalShares == [t \in Tickers |-> 2]

InitLedger ==
    /\ stocks = [t \in Tickers |-> [available_shares |-> TotalShares[t], price |-> 1]]
    /\ cash = [u \in Users |-> IF u = 1 THEN 3 ELSE 0]
    /\ holdings = <<>>
    /\ orders = <<>>
    /\ transactions = << [user_id |-> 1, kind |-> "deposit", ticker |-> "", quantity |-> None,
                          price |-> None, amount |-> 3, balance_after |-> 3] >>
    /\ procs = [p \in Procs |-> Idle]
    /\ nops = 0

Init == InitLedger /\ limits = [ops |-> MaxOps, handlers |-> 2, orders |-> {}]

InitSeq == InitLedger /\ limits = [ops |-> MaxSeqOps, handlers |-> 1, orders |-> {}]

\* The ledger after the same setup with a first deposit of 5, a filled market
\* buy of 2 shares of A by user 1 and a limit sell of 1 at 2 that the price
\* of 1 leaves pending.
InitFair ==
    /\ stocks = [t \in Tickers |->
                    [available_shares |-> IF t = "A" THEN 0 ELSE TotalShares[t], price |-> 1]]
    /\ cash = [u \in Users |-> IF u = 1 THEN 3 ELSE 0]
    /\ holdings = << [user_id |-> 1, ticker |-> "A", quantity |-> 2] >>
    /\ orders = << [user_id |-> 1, ticker |-> "A", quantity |-> 2, side |-> "buy",
                    type |-> "market", limit_price |-> None, status |-> "filled",
                    filled_at |-> TRUE, fill_price |-> 1],
                   [user_id |-> 1, ticker |-> "A", quantity |-> 1, side |-> "sell",
                    type |-> "limit", limit_price |-> 2, status |-> "pending",
                    filled_at |-> FALSE, fill_price |-> None] >>
    /\ transactions = << [user_id |-> 1, kind |-> "deposit", ticker |-> "", quantity |-> None,
                          price |-> None, amount |-> 5, balance_after |-> 5],
                         [user_id |-> 1, kind |-> "buy", ticker |-> "A", quantity |-> 2,
                          price |-> 1, amount |-> 0 - 2, balance_after |-> 3] >>
    /\ procs = [p \in Procs |-> Idle]
    /\ nops = 0
    /\ limits = [ops |-> MaxFairOps, handlers |-> 2, orders |-> {}]

InitTickers ==
    InitLedger /\ limits = [ops |-> MaxTickerOps, handlers |-> 1, orders |-> OrderArgsB]

\* A handler that has finished hands its result to its caller before any other
\* handler takes a step: returning touches no shared state.
NoReturnDue == \A q \in Procs : procs[q].pc # "done"

\* Handler p is at position pc of its call.
At(p, pc) == procs[p].pc = pc /\ NoReturnDue

\* Handler p accepts a new API call.  Handlers are interchangeable: the call
\* goes to the first idle one.
CanCall(p) ==
    /\ At(p, "idle")
    /\ p <= limits.handlers
    /\ \A q \in Procs : q < p => procs[q].pc # "idle"
    /\ nops < limits.ops

Finish(p, r) == [procs[p] EXCEPT !.pc = "done", !.ret = r, !.held = {}, !.ids = <<>>]

\* raise ValueError(...) before anything is written.  Only the calls that pass
\* validation count towards the bound.
Raise(p, op) ==
    /\ procs' = [procs EXCEPT ![p] = [Idle EXCEPT !.op = op, !.pc = "done", !.ret = "error"]]
    /\ UNCHANGED <<ledger, nops, limits>>

\* ------------------------------------------------------------------- cash
deposit_cash_select(p, user_id, amount) ==
    /\ CanCall(p)
    /\ IF amount <= 0 \/ user_id \notin DOMAIN cash
       THEN Raise(p, "deposit_cash")
       ELSE /\ procs' = [procs EXCEPT ![p] =
                    [Idle EXCEPT !.op = "deposit_cash", !.pc = "commit", !.user = user_id,
                                 !.amount = amount, !.balance = cash[user_id] + amount]]
            /\ nops' = nops + 1
            /\ UNCHANGED <<ledger, limits>>

deposit_cash_commit(p) ==
    LET s == procs[p] IN
    /\ s.op = "deposit_cash" /\ At(p, "commit")
    /\ LockFree(p, CashRow(s.user))
    /\ cash' = [cash EXCEPT ![s.user] = s.balance]
    /\ transactions' = Append(transactions,
            [user_id |-> s.user, kind |-> "deposit", ticker |-> "", quantity |-> None,
             price |-> None, amount |-> s.amount, balance_after |-> s.balance])
    /\ procs' = [procs EXCEPT ![p] = Finish(p, "ok")]
    /\ UNCHANGED <<stocks, holdings, orders, nops, limits>>

\* Variant: a withdrawal without the balance check.
InsufficientBalanceNever(balance, amount) == FALSE

\* if acc.balance < amount: raise ValueError("insufficient cash")
InsufficientBalance(balance, amount) == balance < amount

withdraw_cash_select(p, user_id, amount) ==
    /\ CanCall(p)
    /\ IF amount <= 0 \/ user_id \notin DOMAIN cash
       THEN Raise(p, "withdraw_cash")
       ELSE IF InsufficientBalance(cash[user_id], amount)
       THEN Raise(p, "withdraw_cash")
       ELSE /\ procs' = [procs EXCEPT ![p] =
                    [Idle EXCEPT !.op = "withdraw_cash", !.pc = "commit", !.user = user_id,
                                 !.amount = amount, !.balance = cash[user_id] - amount]]
            /\ nops' = nops + 1
            /\ UNCHANGED <<ledger, limits>>

withdraw_cash_commit(p) ==
    LET s == procs[p] IN
    /\ s.op = "withdraw_cash" /\ At(p, "commit")
    /\ LockFree(p, CashRow(s.user))
    /\ cash' = [cash EXCEPT ![s.user] = s.balance]
    /\ transactions' = Append(transactions,
            [user_id |-> s.user, kind |-> "withdraw", ticker |-> "", quantity |-> None,
             price |-> None, amount |-> 0 - s.amount, balance_after |-> s.balance])
    /\ procs' = [procs EXCEPT ![p] = Finish(p, "ok")]
    /\ UNCHANGED <<stocks, holdings, orders, nops, limits>>

\* ------------------------------------------------------- execution engine
\* Variants: a limit order fills at the market price; a limit sell fills at
\* any market price.
fill_price_AtMarket(order, market_price) ==
    IF order.type = "market" THEN market_price
    ELSE IF order.side = "buy" /\ order.limit_price >= market_price THEN market_price
    ELSE IF order.side = "sell" /\ order.limit_price <= market_price THEN market_price
    ELSE None

fill_price_SellAlways(order, market_price) ==
    IF order.type = "market" THEN market_price
    ELSE IF order.side = "buy" /\ order.limit_price >= market_price THEN order.limit_price
    ELSE IF order.side = "sell" THEN order.limit_price
    ELSE None

\* fill_price of _attempt_execute: None when the order is not fillable now.
fill_price(order, market_price) ==
    IF order.type = "market" THEN market_price
    ELSE IF order.side = "buy" /\ order.limit_price >= market_price THEN order.limit_price
    ELSE IF order.side = "sell" /\ order.limit_price <= market_price THEN order.limit_price
    ELSE None

\* Variant: a buy of all the available shares is refused.
InsufficientSharesStrict(available_shares, qty) == available_shares <= qty

\* if stock.available_shares < qty: reject
InsufficientShares(available_shares, qty) == available_shares < qty

\* if not acc or acc.balance < qty * fill_price: reject
InsufficientCash(balance, qty, price) == balance < qty * price

\* Variant: a sell of the whole holding is refused.
InsufficientHoldingStrict(hs, h, qty) == h = 0 \/ hs[h].quantity <= qty

\* if not holding or holding.quantity < qty: reject
InsufficientHolding(hs, h, qty) == h = 0 \/ hs[h].quantity < qty

\* Variant: the status of the order is not looked at.
NotPendingNever(os, oid) == oid \notin DOMAIN os

\* if not order or order.status != OrderStatus.PENDING: return
NotPending(os, oid) == oid \notin DOMAIN os \/ os[oid].status # "pending"

\* Variant: the session of an attempt is left open, with its row locks.
AfterAttemptLocksKept(s) ==
    LET t == [s EXCEPT !.balance = 0, !.available_shares = 0, !.holding = 0,
                       !.quantity = 0, !.fill_price = None]
    IN
    IF s.op = "place_order" THEN [t EXCEPT !.pc = "get_order"]
    ELSE IF s.ids = <<>> THEN [t EXCEPT !.pc = "done", !.ret = "ok"]
    ELSE [t EXCEPT !.pc = "ae_order", !.oid = Head(s.ids), !.ids = Tail(s.ids),
                   !.market = "unread"]

\* Where the caller of _attempt_execute goes on: place_order reads the order
\* back, a sweep takes its next id.  The session of the attempt is closed.
AfterAttempt(s) ==
    LET t == [s EXCEPT !.held = {}, !.balance = 0, !.available_shares = 0, !.holding = 0,
                       !.quantity = 0, !.fill_price = None]
    IN
    IF s.op = "place_order" THEN [t EXCEPT !.pc = "get_order"]
    ELSE IF s.ids = <<>> THEN [t EXCEPT !.pc = "done", !.ret = "ok"]
    ELSE [t EXCEPT !.pc = "ae_order", !.oid = Head(s.ids), !.ids = Tail(s.ids),
                   !.market = "unread"]

\* Variant: a rejected buy has already taken its shares.
RejectAfterDebit(p) ==
    LET order == orders[procs[p].oid] IN
    /\ orders' = [orders EXCEPT ![procs[p].oid].status = "rejected"]
    /\ stocks' = [stocks EXCEPT ![order.ticker].available_shares =
                        IF order.side = "buy" /\ @ >= order.quantity
                        THEN @ - order.quantity ELSE @]
    /\ procs' = [procs EXCEPT ![p] = AfterAttempt(procs[p])]
    /\ UNCHANGED <<cash, holdings, transactions, nops, limits>>

\* order.status = REJECTED; commit; return
Reject(p) ==
    /\ orders' = [orders EXCEPT ![procs[p].oid].status = "rejected"]
    /\ procs' = [procs EXCEPT ![p] = AfterAttempt(procs[p])]
    /\ UNCHANGED <<stocks, cash, holdings, transactions, nops, limits>>

\* return without a commit: the session closes and its locks are released
Leave(p, s) ==
    /\ procs' = [procs EXCEPT ![p] = AfterAttempt(s)]
    /\ UNCHANGED <<ledger, nops, limits>>

\* select(Order).where(Order.id == order_id).with_for_update(), the status
\* check, and is_market_open() at the instant `at` the clock shows.
ae_select_order(p, at) ==
    LET s == procs[p] IN
    /\ At(p, "ae_order")
    /\ LockFree(p, OrderRow(s.oid))
    /\ IF NotPending(orders, s.oid)
       THEN Leave(p, s)
       ELSE IF ~is_market_open(at, MarketSettingsRow)
       THEN Leave(p, [s EXCEPT !.market = "closed", !.closed = @ \cup {s.oid}])
       ELSE /\ procs' = [procs EXCEPT ![p] =
                    [s EXCEPT !.pc = "ae_stock", !.market = "open",
                              !.held = {OrderRow(s.oid)}]]
            /\ UNCHANGED <<ledger, nops, limits>>

\* select(Stock).where(Stock.ticker == order.ticker).with_for_update(), the
\* fill price, and for a buy the available_shares check
ae_select_stock(p) ==
    LET s == procs[p]
        order == orders[s.oid]
    IN
    /\ At(p, "ae_stock")
    /\ LockFree(p, StockRow(order.ticker))
    /\ IF order.ticker \notin DOMAIN stocks
       THEN Reject(p)
       ELSE LET stock == stocks[order.ticker]
                fp == fill_price(order, stock.price)
                t == [s EXCEPT !.fill_price = fp, !.available_shares = stock.available_shares,
                               !.held = @ \cup {StockRow(order.ticker)}]
            IN
            IF fp = None THEN Leave(p, s)
            ELSE IF order.side = "buy"
            THEN IF InsufficientShares(stock.available_shares, order.quantity)
                 THEN Reject(p)
                 ELSE /\ procs' = [procs EXCEPT ![p] = [t EXCEPT !.pc = "ae_cash_buy"]]
                      /\ UNCHANGED <<ledger, nops, limits>>
            ELSE /\ procs' = [procs EXCEPT ![p] = [t EXCEPT !.pc = "ae_holding_sell"]]
                 /\ UNCHANGED <<ledger, nops, limits>>

\* buy: select(CashAccount)...with_for_update() and the cash check
ae_select_cash_buy(p) ==
    LET s == procs[p]
        order == orders[s.oid]
    IN
    /\ At(p, "ae_cash_buy")
    /\ LockFree(p, CashRow(order.user_id))
    /\ IF order.user_id \notin DOMAIN cash
       THEN Reject(p)
       ELSE IF InsufficientCash(cash[order.user_id], order.quantity, s.fill_price)
       THEN Reject(p)
       ELSE /\ procs' = [procs EXCEPT ![p] =
                    [s EXCEPT !.pc = "ae_holding_buy", !.balance = cash[order.user_id],
                              !.held = @ \cup {CashRow(order.user_id)}]]
            /\ UNCHANGED <<ledger, nops, limits>>

\* Variant: a sell does not put its shares back.
SharesAfterSellKept(side, available_shares, qty) ==
    IF side = "buy" THEN available_shares - qty ELSE available_shares

\* stock.available_shares -= qty (buy), += qty (sell)
SharesAfter(side, available_shares, qty) ==
    IF side = "buy" THEN available_shares - qty ELSE available_shares + qty

\* Variant: a sell credits nothing.
BalanceAfterNoCredit(side, balance, qty, price) ==
    IF side = "buy" THEN balance - qty * price ELSE balance

\* acc.balance -= qty * fill_price (buy), += qty * fill_price (sell)
BalanceAfter(side, balance, qty, price) ==
    IF side = "buy" THEN balance - qty * price ELSE balance + qty * price

\* Variant: a filled order keeps no fill price.
FilledNoPrice(order, price) ==
    [order EXCEPT !.status = "filled", !.filled_at = TRUE]

\* order.status = FILLED; order.filled_at = utcnow(); order.fill_price = fill_price
Filled(order, price) ==
    [order EXCEPT !.status = "filled", !.filled_at = TRUE, !.fill_price = price]

\* The rows a fill writes, from the values the session read, and the commit.
Fill(p, s, balance, h, hqty) ==
    LET order == orders[s.oid]
        cost == order.quantity * s.fill_price
    IN
    /\ cash' = [cash EXCEPT ![order.user_id] = balance]
    /\ stocks' = [stocks EXCEPT ![order.ticker].available_shares =
                        SharesAfter(order.side, s.available_shares, order.quantity)]
    /\ holdings' = IF h = 0
                   THEN Append(holdings, [user_id |-> order.user_id, ticker |-> order.ticker,
                                          quantity |-> hqty])
                   ELSE [holdings EXCEPT ![h].quantity = hqty]
    /\ transactions' = Append(transactions,
            [user_id |-> order.user_id, kind |-> order.side, ticker |-> order.ticker,
             quantity |-> order.quantity, price |-> s.fill_price,
             amount |-> IF order.side = "buy" THEN 0 - cost ELSE cost,
             balance_after |-> balance])
    /\ orders' = [orders EXCEPT ![s.oid] = Filled(order, s.fill_price)]
    /\ procs' = [procs EXCEPT ![p] = AfterAttempt(s)]
    /\ UNCHANGED <<nops, limits>>

\* buy: select(Holding)...with_for_update(); a row that exists is locked, a
\* missing one leaves nothing to lock
ae_select_holding_buy(p) ==
    LET s == procs[p]
        order == orders[s.oid]
        h == HoldingFirst(holdings, order.user_id, order.ticker)
    IN
    /\ At(p, "ae_holding_buy")
    /\ h # 0 => LockFree(p, HoldingRow(order.user_id, order.ticker))
    /\ procs' = [procs EXCEPT ![p] =
            [s EXCEPT !.pc = "ae_buy_commit", !.holding = h,
                      !.quantity = IF h = 0 THEN 0 ELSE holdings[h].quantity,
                      !.held = IF h = 0 THEN @
                               ELSE @ \cup {HoldingRow(order.user_id, order.ticker)}]]
    /\ UNCHANGED <<ledger, nops, limits>>

\* buy: the upsert of the holding read (quantity += qty, or a new row), the
\* buy transaction and the commit of the fill
ae_buy_commit(p) ==
    LET s == procs[p]
        qty == orders[s.oid].quantity
    IN
    /\ At(p, "ae_buy_commit")
    /\ Fill(p, s, BalanceAfter("buy", s.balance, qty, s.fill_price), s.holding, s.quantity + qty)

\* sell: select(Holding)...with_for_update() and the holding check
ae_select_holding_sell(p) ==
    LET s == procs[p]
        order == orders[s.oid]
        h == HoldingFirst(holdings, order.user_id, order.ticker)
    IN
    /\ At(p, "ae_holding_sell")
    /\ LockFree(p, HoldingRow(order.user_id, order.ticker))
    /\ IF InsufficientHolding(holdings, h, order.quantity)
       THEN Reject(p)
       ELSE /\ procs' = [procs EXCEPT ![p] =
                    [s EXCEPT !.pc = "ae_cash_sell", !.holding = h,
                              !.quantity = holdings[h].quantity,
                              !.held = @ \cup {HoldingRow(order.user_id, order.ticker)}]]
            /\ UNCHANGED <<ledger, nops, limits>>

\* sell: select(CashAccount)...with_for_update(), the credit, the sell
\* transaction and the commit of the fill
ae_sell_commit(p) ==
    LET s == procs[p]
        order == orders[s.oid]
        qty == order.quantity
        balance == IF order.user_id \in DOMAIN cash THEN cash[order.user_id] ELSE 0
    IN
    /\ At(p, "ae_cash_sell")
    /\ LockFree(p, CashRow(order.user_id))
    /\ Fill(p, s, BalanceAfter("sell", balance, qty, s.fill_price), s.holding, s.quantity - qty)

\* Variant: a limit order is accepted without a positive price.
InvalidOrderNoPrice(user_id, ticker, quantity, side, order_type, price) ==
    \/ quantity <= 0
    \/ side \notin {"buy", "sell"}
    \/ order_type \notin {"market", "limit"}
    \/ user_id \notin Users
    \/ ticker \notin DOMAIN stocks

\* The checks of place_order that raise ValueError: the arguments after
\* upper() / lower(), then the user and stock lookups.
InvalidOrder(user_id, ticker, quantity, side, order_type, price) ==
    \/ quantity <= 0
    \/ side \notin {"buy", "sell"}
    \/ order_type \notin {"market", "limit"}
    \/ (order_type = "limit" /\ (price = None \/ price <= 0))
    \/ user_id \notin Users
    \/ ticker \notin DOMAIN stocks

\* ------------------------------------------------------------------ orders
\* place_order up to the commit of the new pending order.
place_order(p, user_id, ticker_arg, quantity, side_arg, type_arg, price) ==
    LET ticker == upper(ticker_arg)
        side == lower(side_arg)
        order_type == lower(type_arg)
        invalid == InvalidOrder(user_id, ticker, quantity, side, order_type, price)
        order ==
            [user_id |-> user_id, ticker |-> ticker, quantity |-> quantity, side |-> side,
             type |-> order_type, limit_price |-> price, status |-> "pending",
             filled_at |-> FALSE, fill_price |-> None]
    IN
    /\ CanCall(p)
    /\ <<user_id, ticker_arg, quantity, side_arg, type_arg, price>> \in
            OrderArgs \cup limits.orders
    /\ IF invalid
       THEN Raise(p, "place_order")
       ELSE /\ orders' = Append(orders, order)
            /\ nops' = nops + 1
            /\ procs' = [procs EXCEPT ![p] =
                    [Idle EXCEPT !.op = "place_order", !.pc = "ae_order",
                                 !.oid = Len(orders) + 1]]
            /\ UNCHANGED <<stocks, cash, holdings, transactions, limits>>

\* Variant: place_order returns the order as it was stored, before the
\* evaluation.
get_order_AsPlaced(p) ==
    LET s == procs[p] IN
    /\ At(p, "get_order")
    /\ procs' = [procs EXCEPT ![p] = Finish(p, "pending")]
    /\ UNCHANGED <<ledger, nops, limits>>

\* return await get_order(order_id)
get_order(p) ==
    LET s == procs[p] IN
    /\ At(p, "get_order")
    /\ procs' = [procs EXCEPT ![p] =
            Finish(p, IF s.oid \in DOMAIN orders THEN orders[s.oid].status ELSE "none")]
    /\ UNCHANGED <<ledger, nops, limits>>

\* Variant: cancel_order reads the order without FOR UPDATE.
cancel_order_NoLock(p, order_id) ==
    /\ CanCall(p)
    /\ IF NotPending(orders, order_id)
       THEN /\ procs' = [procs EXCEPT ![p] =
                    [Idle EXCEPT !.op = "cancel_order", !.pc = "done", !.oid = order_id,
                                 !.ret = "false"]]
            /\ UNCHANGED <<ledger, nops, limits>>
       ELSE /\ orders' = [orders EXCEPT ![order_id].status = "cancelled"]
            /\ procs' = [procs EXCEPT ![p] =
                    [Idle EXCEPT !.op = "cancel_order", !.pc = "done", !.oid = order_id,
                                 !.ret = "true"]]
            /\ nops' = nops + 1
            /\ UNCHANGED <<stocks, cash, holdings, transactions, limits>>

\* Variant: cancelling an order that is not pending reports success.
cancel_order_TrueAlways(p, order_id) ==
    /\ CanCall(p)
    /\ LockFree(p, OrderRow(order_id))
    /\ IF NotPending(orders, order_id)
       THEN /\ procs' = [procs EXCEPT ![p] =
                    [Idle EXCEPT !.op = "cancel_order", !.pc = "done", !.oid = order_id,
                                 !.ret = "true"]]
            /\ UNCHANGED <<ledger, nops, limits>>
       ELSE /\ orders' = [orders EXCEPT ![order_id].status = "cancelled"]
            /\ procs' = [procs EXCEPT ![p] =
                    [Idle EXCEPT !.op = "cancel_order", !.pc = "done", !.oid = order_id,
                                 !.ret = "true"]]
            /\ nops' = nops + 1
            /\ UNCHANGED <<stocks, cash, holdings, transactions, limits>>

\* cancel_order: select FOR UPDATE, status check, status = CANCELLED, commit.
cancel_order(p, order_id) ==
    /\ CanCall(p)
    /\ LockFree(p, OrderRow(order_id))
    /\ IF NotPending(orders, order_id)
       THEN /\ procs' = [procs EXCEPT ![p] =
                    [Idle EXCEPT !.op = "cancel_order", !.pc = "done", !.oid = order_id,
                                 !.ret = "false"]]
            /\ UNCHANGED <<ledger, nops, limits>>
       ELSE /\ orders' = [orders EXCEPT ![order_id].status = "cancelled"]
            /\ procs' = [procs EXCEPT ![p] =
                    [Idle EXCEPT !.op = "cancel_order", !.pc = "done", !.oid = order_id,
                                 !.ret = "true"]]
            /\ nops' = nops + 1
            /\ UNCHANGED <<stocks, cash, holdings, transactions, limits>>

\* ------------------------------------------------------------------ sweeps
\* The limit sells of a ticker that are pending, priced at or below new_price
\* and covered by the seller's holding when update_stock_price is called.
DueSells(ticker, new_price) ==
    {i \in DOMAIN orders :
        /\ orders[i].ticker = ticker /\ orders[i].status = "pending"
        /\ orders[i].side = "sell" /\ orders[i].type = "limit"
        /\ orders[i].limit_price <= new_price
        /\ ~InsufficientHolding(holdings,
                HoldingFirst(holdings, orders[i].user_id, ticker), orders[i].quantity)}

\* Variant: the sweep starts without the new price having been stored.
update_stock_price_NotStored(p, ticker_arg, new_price) ==
    LET ticker == upper(ticker_arg) IN
    /\ CanCall(p)
    /\ IF new_price <= 0 \/ ticker \notin DOMAIN stocks
       THEN Raise(p, "update_stock_price")
       ELSE /\ LockFree(p, StockRow(ticker))
            /\ procs' = [procs EXCEPT ![p] =
                    [Idle EXCEPT !.op = "update_stock_price", !.pc = "trigger",
                                 !.ticker = ticker, !.amount = new_price,
                                 !.due = DueSells(ticker, new_price)]]
            /\ nops' = nops + 1
            /\ UNCHANGED <<ledger, limits>>

\* update_stock_price up to the commit of the new price (simulate_market_price
\* is the same code): the UPDATE waits for the lock on the stock row.
update_stock_price(p, ticker_arg, new_price) ==
    LET ticker == upper(ticker_arg) IN
    /\ CanCall(p)
    /\ IF new_price <= 0 \/ ticker \notin DOMAIN stocks
       THEN Raise(p, "update_stock_price")
       ELSE /\ LockFree(p, StockRow(ticker))
            /\ stocks' = [stocks EXCEPT ![ticker].price = new_price]
            /\ procs' = [procs EXCEPT ![p] =
                    [Idle EXCEPT !.op = "update_stock_price", !.pc = "trigger",
                                 !.ticker = ticker, !.amount = new_price,
                                 !.due = DueSells(ticker, new_price)]]
            /\ nops' = nops + 1
            /\ UNCHANGED <<cash, holdings, orders, transactions, limits>>

\* for oid in ids: await _attempt_execute(oid)
StartSweep(s, ids) ==
    IF ids = <<>> THEN [s EXCEPT !.pc = "done", !.ret = "ok"]
    ELSE [s EXCEPT !.pc = "ae_order", !.oid = Head(ids), !.ids = Tail(ids), !.swept = ids]

\* Variant: the sweep after a price update takes the pending orders of every
\* ticker.
trigger_pending_orders_for_ticker_All(p) ==
    LET s == procs[p]
        rows == {i \in DOMAIN orders : orders[i].status = "pending"}
    IN
    /\ At(p, "trigger")
    /\ \E ids \in RowOrders(rows) :
            procs' = [procs EXCEPT ![p] = StartSweep(s, ids)]
    /\ UNCHANGED <<ledger, nops, limits>>

\* select(Order).where(Order.ticker == ticker, Order.status == PENDING)
trigger_pending_orders_for_ticker(p) ==
    LET s == procs[p]
        rows == {i \in DOMAIN orders :
                    orders[i].ticker = s.ticker /\ orders[i].status = "pending"}
    IN
    /\ At(p, "trigger")
    /\ \E ids \in RowOrders(rows) :
            procs' = [procs EXCEPT ![p] = StartSweep(s, ids)]
    /\ UNCHANGED <<ledger, nops, limits>>

\* select(Order).where(Order.status == PENDING)
trigger_pending_orders(p) ==
    LET rows == {i \in DOMAIN orders : orders[i].status = "pending"} IN
    /\ CanCall(p)
    /\ nops' = nops + 1
    /\ \E ids \in RowOrders(rows) :
            procs' = [procs EXCEPT ![p] =
                StartSweep([Idle EXCEPT !.op = "trigger_pending_orders"], ids)]
    /\ UNCHANGED <<ledger, limits>>

Return(p) ==
    /\ procs[p].pc = "done"
    /\ procs' = [procs EXCEPT ![p] = Idle]
    /\ UNCHANGED <<ledger, nops, limits>>

Next ==
    \/ \E p \in Procs, a \in DepositArgs : deposit_cash_select(p, a[1], a[2])
    \/ \E p \in Procs : deposit_cash_commit(p)
    \/ \E p \in Procs, a \in WithdrawArgs : withdraw_cash_select(p, a[1], a[2])
    \/ \E p \in Procs : withdraw_cash_commit(p)
    \/ \E p \in Procs, a \in OrderArgs \cup OrderArgsB :
            place_order(p, a[1], a[2], a[3], a[4], a[5], a[6])
    \/ \E p \in Procs, at \in Instants : ae_select_order(p, at)
    \/ \E p \in Procs : ae_select_stock(p)
    \/ \E p \in Procs : ae_select_cash_buy(p)
    \/ \E p \in Procs : ae_select_holding_buy(p)
    \/ \E p \in Procs : ae_buy_commit(p)
    \/ \E p \in Procs : ae_select_holding_sell(p)
    \/ \E p \in Procs : ae_sell_commit(p)
    \/ \E p \in Procs : get_order(p)
    \/ \E p \in Procs, o \in OrderIdArgs : cancel_order(p, o)
    \/ \E p \in Procs, a \in NewPriceArgs : update_stock_price(p, a[1], a[2])
    \/ \E p \in Procs : trigger_pending_orders_for_ticker(p)
    \/ \E p \in Procs : trigger_pending_orders(p)
    \/ \E p \in Procs : Return(p)

Spec == Init /\ [][Next]_vars

SpecSeq == InitSeq /\ [][Next]_vars

SpecTickers == InitTickers /\ [][Next]_vars

\* The steps of handler p inside a call it has taken.
Progress(p) ==
    \/ deposit_cash_commit(p)
    \/ withdraw_cash_commit(p)
    \/ \E at \in Instants : ae_select_order(p, at)
    \/ ae_select_stock(p)
    \/ ae_select_cash_buy(p)
    \/ ae_select_holding_buy(p)
    \/ ae_buy_commit(p)
    \/ ae_select_holding_sell(p)
    \/ ae_sell_commit(p)
    \/ get_order(p)
    \/ trigger_pending_orders_for_ticker(p)
    \/ Return(p)

\* The event loop resumes, in turn, every coroutine whose awaited statement
\* can complete, and the database queues the sessions that wait for a row
\* lock: a handler that can take its step again and again takes it.
Fairness == \A p \in Procs : SF_vars(Progress(p))

SpecFair == InitFair /\ [][Next]_vars /\ Fairness

\* =============================================================== properties
Statuses == {"pending", "filled", "cancelled", "rejected"}

\* Positions of _attempt_execute after the market was found open.
AttemptPcs ==
    {"ae_stock", "ae_cash_buy", "ae_holding_buy", "ae_buy_commit", "ae_holding_sell",
     "ae_cash_sell"}

Sweeps == {"update_stock_price", "trigger_pending_orders"}

RECURSIVE SumQuantity(_, _)
SumQuantity(hs, I) ==
    IF I = {} THEN 0
    ELSE LET i == CHOOSE k \in I : TRUE IN hs[i].quantity + SumQuantity(hs, I \ {i})

\* What user u holds of ticker t; what all users hold of t.
Held(hs, u, t) == SumQuantity(hs, HoldingIdx(hs, u, t))

HeldByAll(hs, t) == SumQuantity(hs, {i \in 1..Len(hs) : hs[i].ticker = t})

Decided(i) == orders[i].status = "pending" /\ orders'[i].status \in {"filled", "rejected"}

\* Handler p ends its evaluation of order i with this step.
EndsAttempt(p, i) ==
    /\ procs[p].oid = i
    /\ procs[p].pc \in AttemptPcs
    /\ procs'[p].pc \notin AttemptPcs

\* C1: an order's status only moves from pending to filled, rejected or
\* cancelled; once it is one of these, no step changes it again, and a new
\* order starts as pending.
C1_StatusTerminal ==
    [][ /\ \A i \in DOMAIN orders :
              /\ i \in DOMAIN orders'
              /\ orders'[i].status \in Statuses
              /\ orders[i].status # "pending" => orders'[i].status = orders[i].status
        /\ \A i \in DOMAIN orders' \ DOMAIN orders : orders'[i].status = "pending"
      ]_vars

\* A sell that was rejected for want of shares stays rejected after the seller
\* has bought the shares and a sweep over all pending orders has run.
C1_Witness ==
    \E p \in Procs, i \in DOMAIN orders :
        /\ procs[p].op = "trigger_pending_orders" /\ procs[p].pc = "done"
        /\ orders[i].status = "rejected" /\ orders[i].side = "sell"
        /\ Held(holdings, orders[i].user_id, orders[i].ticker) >= orders[i].quantity

\* C2: a pending market buy evaluated with the market open is filled exactly
\* when the buyer's cash covers quantity * price and available_shares covers
\* quantity, and is rejected otherwise; the fill takes quantity * price off
\* the cash balance, quantity off available_shares and adds quantity to the
\* buyer's holding.
C2_MarketBuy ==
    [][\A i \in DOMAIN orders :
          LET o == orders[i]
              price == stocks[o.ticker].price
              cost == o.quantity * price
              ok == /\ cash[o.user_id] >= cost
                    /\ stocks[o.ticker].available_shares >= o.quantity
          IN
          (o.side = "buy" /\ o.type = "market" /\ o.status = "pending") =>
              /\ orders'[i].status = "filled" =>
                    /\ ok
                    /\ orders'[i].fill_price = price
                    /\ cash'[o.user_id] = cash[o.user_id] - cost
                    /\ stocks'[o.ticker].available_shares =
                            stocks[o.ticker].available_shares - o.quantity
                    /\ Held(holdings', o.user_id, o.ticker) =
                            Held(holdings, o.user_id, o.ticker) + o.quantity
              /\ orders'[i].status = "rejected" => ~ok
              /\ \A p \in Procs : EndsAttempt(p, i) => Decided(i)
      ]_vars

\* One market buy has been filled and another one rejected.
C2_Witness ==
    \E i, j \in DOMAIN orders :
        /\ orders[i].side = "buy" /\ orders[i].type = "market"
        /\ orders[j].side = "buy" /\ orders[j].type = "market"
        /\ orders[i].status = "filled" /\ orders[i].fill_price = stocks[orders[i].ticker].price
        /\ orders[j].status = "rejected"

\* Handler p evaluates order i at a price its limit admits.
AdmittedAtStock(p, i) ==
    /\ procs[p].oid = i
    /\ procs[p].pc = "ae_stock"
    /\ procs'[p] # procs[p]
    /\ IF orders[i].side = "buy"
       THEN orders[i].limit_price >= stocks[orders[i].ticker].price
       ELSE orders[i].limit_price <= stocks[orders[i].ticker].price

\* C3: a pending limit buy whose limit_price is at or above the price is
\* filled at limit_price, not at the price: the cash check and the debit both
\* use quantity * limit_price.
C3_LimitBuy ==
    [][\A i \in DOMAIN orders :
          LET o == orders[i]
              price == stocks[o.ticker].price
              cost == o.quantity * o.limit_price
              ok == /\ cash[o.user_id] >= cost
                    /\ stocks[o.ticker].available_shares >= o.quantity
          IN
          (o.side = "buy" /\ o.type = "limit" /\ o.status = "pending") =>
              /\ orders'[i].status = "filled" =>
                    /\ o.limit_price >= price
                    /\ ok
                    /\ orders'[i].fill_price = o.limit_price
                    /\ cash'[o.user_id] = cash[o.user_id] - cost
                    /\ transactions'[Len(transactions')].price = o.limit_price
                    /\ transactions'[Len(transactions')].amount = 0 - cost
              /\ orders'[i].status = "rejected" => (o.limit_price >= price /\ ~ok)
              /\ \A p \in Procs :
                    /\ AdmittedAtStock(p, i) => (Decided(i) \/ procs'[p].pc = "ae_cash_buy")
                    /\ (EndsAttempt(p, i) /\ procs[p].pc # "ae_stock") => Decided(i)
      ]_vars

\* A limit buy has been filled above the price the stock trades at.
C3_Witness ==
    \E i \in DOMAIN orders :
        /\ orders[i].side = "buy" /\ orders[i].type = "limit"
        /\ orders[i].status = "filled"
        /\ orders[i].fill_price = orders[i].limit_price
        /\ orders[i].fill_price > stocks[orders[i].ticker].price

Range(s) == {s[k] : k \in DOMAIN s}

\* What a buy order costs at the price it would fill at now (0 when its limit
\* does not admit the price).
CostNow(o) ==
    LET fp == IF o.status = "filled" THEN o.fill_price
              ELSE fill_price(o, stocks[o.ticker].price)
    IN IF fp = None THEN 0 ELSE o.quantity * fp

\* C4: a sweep evaluates the pending orders it selected in ascending creation
\* order, so of two buys of one ticker that cannot both be filled the earlier
\* one is filled: no sweep ends with the earlier buy rejected and the later
\* buy filled out of shares and cash that covered the earlier one.
C4_SweepFifo ==
    \A p \in Procs :
        (procs[p].op \in Sweeps /\ procs[p].pc = "done") =>
            \A i, j \in Range(procs[p].swept) :
                LET a == orders[i]
                    b == orders[j]
                IN
                ~ /\ i < j
                  /\ a.side = "buy" /\ b.side = "buy"
                  /\ a.ticker = b.ticker /\ a.user_id = b.user_id
                  /\ a.status = "rejected" /\ b.status = "filled"
                  /\ stocks[a.ticker].available_shares < a.quantity
                  /\ stocks[a.ticker].available_shares + b.quantity >= a.quantity
                  /\ cash[a.user_id] + CostNow(b) >= CostNow(a)

\* The rows handler p has read FOR UPDATE still hold what p read.
ReadsCurrent(p) ==
    LET s == procs[p]
        o == orders[s.oid]
    IN
    /\ o.status = "pending"
    /\ s.available_shares = stocks[o.ticker].available_shares
    /\ s.fill_price = fill_price(o, stocks[o.ticker].price)
    /\ s.pc \in {"ae_holding_buy", "ae_buy_commit"} => s.balance = cash[o.user_id]
    /\ s.pc = "ae_buy_commit" =>
            /\ s.holding = HoldingFirst(holdings, o.user_id, o.ticker)
            /\ s.quantity = IF s.holding = 0 THEN 0 ELSE holdings[s.holding].quantity
    /\ s.pc = "ae_cash_sell" =>
            /\ s.holding = HoldingFirst(holdings, o.user_id, o.ticker)
            /\ s.quantity = holdings[s.holding].quantity

\* C5: evaluations of different orders that touch the same stock, cash account
\* or holding never go on from a stale read: a row one of them has read for
\* its fill is held by it alone and keeps the value read until its commit, so
\* the fills take effect one after another in the order of their commits.
C5_NoStaleRead ==
    /\ \A p \in Procs :
            procs[p].pc \in AttemptPcs \ {"ae_stock"} => ReadsCurrent(p)
    /\ \A p, q \in Procs : p # q => procs[p].held \cap procs[q].held = {}

\* One handler is in the middle of a fill and holds the stock row; another one,
\* evaluating a different order of the same ticker, waits for that row.
C5_Witness ==
    \E p, q \in Procs :
        /\ p # q
        /\ procs[p].pc \in AttemptPcs \ {"ae_stock"}
        /\ procs[q].pc = "ae_stock"
        /\ procs[p].oid # procs[q].oid
        /\ orders[procs[p].oid].ticker = orders[procs[q].oid].ticker
        /\ ~LockFree(q, StockRow(orders[procs[q].oid].ticker))

\* C6: a rejection changes the order's status and nothing else: cash, stocks,
\* holdings and transactions are as before; and an order is rejected only for
\* want of shares or cash (buy) or of holding (sell) at a price it admits.
C6_RejectOnlyStatus ==
    [][\A i \in DOMAIN orders :
          LET o == orders[i]
              fp == fill_price(o, stocks[o.ticker].price)
          IN
          (o.status = "pending" /\ orders'[i].status = "rejected") =>
              /\ UNCHANGED <<stocks, cash, holdings, transactions>>
              /\ orders' = [orders EXCEPT ![i].status = "rejected"]
              /\ fp # None
              /\ IF o.side = "buy"
                 THEN \/ stocks[o.ticker].available_shares < o.quantity
                      \/ cash[o.user_id] < o.quantity * fp
                 ELSE Held(holdings, o.user_id, o.ticker) < o.quantity
      ]_vars

\* A buy and a sell have been rejected.
C6_Witness ==
    \E i, j \in DOMAIN orders :
        /\ orders[i].side = "buy" /\ orders[i].status = "rejected"
        /\ orders[j].side = "sell" /\ orders[j].status = "rejected"

\* The shares of ticker t are all either available or held.
SharesConserved == \A t \in Tickers : stocks[t].available_shares + HeldByAll(holdings, t) = TotalShares[t]

\* available_shares of a ticker changes only with a fill: by -quantity for a
\* buy, by +quantity for a sell.
SharesMoveOnFill ==
    \A t \in Tickers :
        stocks'[t].available_shares # stocks[t].available_shares =>
            \E i \in DOMAIN orders :
                /\ orders[i].ticker = t
                /\ orders[i].status = "pending" /\ orders'[i].status = "filled"
                /\ stocks'[t].available_shares = stocks[t].available_shares +
                        (IF orders[i].side = "buy" THEN 0 - orders[i].quantity
                         ELSE orders[i].quantity)

\* C7: for every ticker available_shares plus all holdings of it equals the
\* total_shares it was created with, and available_shares changes only when a
\* buy fills (-quantity) or a sell fills (+quantity).
C7_ShareConservation == []SharesConserved /\ [][SharesMoveOnFill]_vars

\* A sell has been filled and has put shares back.
C7_Witness ==
    \E i, j \in DOMAIN orders :
        /\ orders[i].side = "buy" /\ orders[i].status = "filled"
        /\ orders[j].side = "sell" /\ orders[j].status = "filled"
        /\ orders[i].ticker = orders[j].ticker

\* C8: no cash balance, no available_shares and no holding quantity is ever
\* negative, whatever the interleaving of the calls.
C8_NonNegative ==
    /\ \A u \in DOMAIN cash : cash[u] >= 0
    /\ \A t \in DOMAIN stocks : stocks[t].available_shares >= 0
    /\ \A h \in DOMAIN holdings : holdings[h].quantity >= 0

\* The shares of a ticker are sold out and the cash is short, and a buy that
\* asked for more and a withdrawal that asked for more have been refused.
C8_Witness ==
    \E i \in DOMAIN orders, p \in Procs :
        /\ orders[i].side = "buy" /\ orders[i].status = "rejected"
        /\ stocks[orders[i].ticker].available_shares = 0
        /\ procs[p].op = "withdraw_cash" /\ procs[p].ret = "error"
        /\ cash[1] < 2

\* The market is closed at an instant: a weekend day, a holiday, or a time
\* outside [open_time, close_time).
ClosedAt(at) ==
    \/ at.weekday \in {5, 6}
    \/ at.date \in MarketSettingsRow.holidays
    \/ at.time < MarketSettingsRow.open_time
    \/ at.time >= MarketSettingsRow.close_time

ClosedInstants == {at \in Instants : ClosedAt(at)}

\* Handler p's step leaves the ledger alone and leaves p outside the
\* evaluation, holding no row.
NoOpFor(p) ==
    /\ UNCHANGED ledger
    /\ procs'[p].pc \notin AttemptPcs
    /\ procs'[p].held = {}

\* C9: an evaluation made while the market is closed leaves the order pending
\* and changes no stock, cash account, holding, order or transaction; it ends
\* there, holding no row.  (Every step is a no-op of this kind for p, or it
\* is not p's market check at any closed instant.)
C9_ClosedMarketNoOp ==
    [][\A p \in Procs :
          NoOpFor(p) \/ \A at \in ClosedInstants : ~ae_select_order(p, at)
      ]_vars

\* place_order found the market closed for a market buy that shares and cash
\* cover: the order is still pending when it is read back.
C9_Witness ==
    \E p \in Procs :
        LET o == orders[procs[p].oid] IN
        /\ procs[p].op = "place_order" /\ procs[p].pc = "get_order"
        /\ procs[p].market = "closed"
        /\ o.status = "pending" /\ o.side = "buy" /\ o.type = "market"
        /\ stocks[o.ticker].available_shares >= o.quantity
        /\ cash[o.user_id] >= o.quantity * stocks[o.ticker].price

\* A pending limit sell is filled only at a price at or above its limit.
SellFillsAtLimit ==
    \A i \in DOMAIN orders :
        LET o == orders[i] IN
        (o.side = "sell" /\ o.type = "limit" /\ o.status = "pending"
            /\ orders'[i].status = "filled") =>
                /\ o.limit_price <= stocks[o.ticker].price
                /\ orders'[i].fill_price = o.limit_price

\* An evaluation of a limit sell made with the market open, the price at or
\* above the limit and the holding covering the quantity fills the order; it
\* is rejected only when the holding does not cover the quantity then.
SellEvaluation ==
    \A i \in DOMAIN orders, p \in Procs :
        LET o == orders[i] IN
        (o.side = "sell" /\ o.type = "limit" /\ o.status = "pending") =>
            /\ AdmittedAtStock(p, i) => procs'[p].pc = "ae_holding_sell"
            /\ (procs[p].oid = i /\ procs[p].pc = "ae_holding_sell" /\ procs'[p] # procs[p]) =>
                    IF Held(holdings, o.user_id, o.ticker) >= o.quantity
                    THEN procs'[p].pc = "ae_cash_sell"
                    ELSE orders'[i].status = "rejected"
            /\ (procs[p].oid = i /\ procs[p].pc = "ae_cash_sell" /\ procs'[p] # procs[p]) =>
                    orders'[i].status = "filled"
            /\ orders'[i].status = "rejected" => Held(holdings, o.user_id, o.ticker) < o.quantity

\* When update_stock_price returns, its sweep has evaluated every limit sell
\* that was due at the call: none it found the market open for is pending.
DueSellsEvaluated ==
    \A p \in Procs :
        (procs[p].op = "update_stock_price" /\ procs[p].pc = "done" /\ procs[p].ret = "ok") =>
            \A i \in procs[p].due \ procs[p].closed : orders[i].status \in {"filled", "rejected"}

CancelStep(p, i) ==
    /\ procs[p].pc = "idle"
    /\ procs'[p].op = "cancel_order"
    /\ procs'[p].oid = i
    /\ procs'[p].pc = "done"

\* C11: cancel_order(i) returns true exactly when order i exists and is
\* pending, and then the order is cancelled; for a filled, rejected, cancelled
\* or nonexistent order it returns false, raises nothing and leaves every
\* order as it was.  Either way no cash balance, holding, available_shares or
\* transaction changes.
C11_CancelContract ==
    [][\A p \in Procs, i \in OrderIdArgs :
          CancelStep(p, i) =>
              LET pending == i \in DOMAIN orders /\ orders[i].status = "pending" IN
              /\ procs'[p].ret = (IF pending THEN "true" ELSE "false")
              /\ orders' = IF pending THEN [orders EXCEPT ![i].status = "cancelled"]
                           ELSE orders
              /\ UNCHANGED <<stocks, cash, holdings, transactions>>
      ]_vars

\* cancel_order has answered false for an order that an earlier cancel_order
\* cancelled.
C11_Witness ==
    \E p \in Procs :
        /\ procs[p].op = "cancel_order" /\ procs[p].pc = "done"
        /\ procs[p].ret = "false"
        /\ procs[p].oid \in DOMAIN orders
        /\ orders[procs[p].oid].status = "cancelled"

\* The transactions that fills have written, and the orders that are filled.
FillTransactions == {k \in DOMAIN transactions : transactions[k].kind \in {"buy", "sell"}}

FilledOrders == {i \in DOMAIN orders : orders[i].status = "filled"}

\* A step that changes a share count or a holding or writes a buy or sell
\* transaction fills exactly one pending order, the one its handler evaluates, and writes
\* that order's one transaction.
OneFillPerStep ==
    ((\E t \in Tickers : stocks'[t].available_shares # stocks[t].available_shares) \/
        holdings' # holdings \/
        FillTransactions # {k \in DOMAIN transactions' : transactions'[k].kind \in {"buy", "sell"}}) =>
        \E p \in Procs :
            LET i == procs[p].oid
                tx == transactions'[Len(transactions')]
            IN
            /\ procs[p].pc \in AttemptPcs
            /\ orders[i].status = "pending"
            /\ orders' = [orders EXCEPT ![i].status = "filled", ![i].filled_at = TRUE,
                                        ![i].fill_price = orders'[i].fill_price]
            /\ Len(transactions') = Len(transactions) + 1
            /\ tx.user_id = orders[i].user_id /\ tx.ticker = orders[i].ticker
            /\ tx.kind = orders[i].side /\ tx.quantity = orders[i].quantity

\* An evaluation of an order that is absent or not pending changes nothing and
\* ends at once.
NotPendingNoOp ==
    \A p \in Procs :
        (/\ procs[p].pc = "ae_order"
         /\ procs'[p] # procs[p]
         /\ (procs[p].oid \notin DOMAIN orders \/ orders[procs[p].oid].status # "pending")) =>
            /\ UNCHANGED ledger
            /\ procs'[p].pc \notin AttemptPcs
            /\ procs'[p].held = {}

\* C12: however evaluations of one order interleave, its fill is applied at
\* most once: there are as many fill transactions as filled orders, every step
\* with a fill effect fills exactly one pending order, and an evaluation that
\* finds the order absent or not pending is a no-op.
C12_FillAtMostOnce ==
    /\ [](Cardinality(FillTransactions) = Cardinality(FilledOrders))
    /\ [][OneFillPerStep /\ NotPendingNoOp]_vars

\* place_order's evaluation of its order found that a concurrent sweep had
\* already filled it, and went on to read it back.
C12_Witness ==
    \E p \in Procs :
        /\ procs[p].op = "place_order" /\ procs[p].pc = "get_order"
        /\ procs[p].market = "unread"
        /\ orders[procs[p].oid].status = "filled"
        /\ Cardinality(FillTransactions) = 1

\* C13: a pending sell that the price admits, evaluated with the market open,
\* is rejected exactly when the seller has no holding of the ticker or holds
\* less than quantity; otherwise it is filled: the holding goes down by
\* quantity, available_shares up by quantity, the seller's cash up by
\* quantity * fill price, and a sell transaction with that amount and the
\* balance after the credit is appended.
C13_Sell ==
    [][\A i \in DOMAIN orders :
          LET o == orders[i]
              fp == IF o.type = "market" THEN stocks[o.ticker].price ELSE o.limit_price
              h == HoldingIdx(holdings, o.user_id, o.ticker)
              short == h = {} \/ Held(holdings, o.user_id, o.ticker) < o.quantity
              tx == transactions'[Len(transactions')]
          IN
          (o.side = "sell" /\ o.status = "pending") =>
              /\ orders'[i].status = "filled" =>
                    /\ ~short
                    /\ (o.type = "limit" => o.limit_price <= stocks[o.ticker].price)
                    /\ orders'[i].fill_price = fp
                    /\ Held(holdings', o.user_id, o.ticker) =
                            Held(holdings, o.user_id, o.ticker) - o.quantity
                    /\ stocks'[o.ticker].available_shares =
                            stocks[o.ticker].available_shares + o.quantity
                    /\ cash'[o.user_id] = cash[o.user_id] + o.quantity * fp
                    /\ transactions' = Append(transactions, tx)
                    /\ tx = [user_id |-> o.user_id, kind |-> "sell", ticker |-> o.ticker,
                             quantity |-> o.quantity, price |-> fp,
                             amount |-> o.quantity * fp, balance_after |-> cash'[o.user_id]]
              /\ orders'[i].status = "rejected" => short
              /\ \A p \in Procs :
                    (o.type = "market" \/ o.limit_price <= stocks[o.ticker].price) =>
                        /\ (EndsAttempt(p, i) => Decided(i))
                        /\ (procs[p].oid = i /\ procs[p].pc = "ae_holding_sell"
                                /\ procs'[p] # procs[p]) =>
                                    IF short THEN orders'[i].status = "rejected"
                                    ELSE procs'[p].pc = "ae_cash_sell"
      ]_vars

\* A sell of the whole holding has been filled and another sell rejected.
C13_Witness ==
    \E i, j \in DOMAIN orders :
        /\ orders[i].side = "sell" /\ orders[i].status = "filled"
        /\ orders[j].side = "sell" /\ orders[j].status = "rejected"
        /\ Held(holdings, orders[i].user_id, orders[i].ticker) = 0

\* Transactions k and k + 1, one written right after the other, are a buy and
\* a sell of the same user, ticker and quantity at the same price.
BuyThenSell(k) ==
    LET b == transactions[k]
        s == transactions[k + 1]
    IN
    /\ b.kind = "buy" /\ s.kind = "sell"
    /\ b.user_id = s.user_id /\ b.ticker = s.ticker
    /\ b.quantity = s.quantity /\ b.price = s.price

\* C14: a filled buy of q shares at price p followed by a filled sell of the
\* same q shares at the same p brings the balance back to what it was before
\* the buy; when the two are all that happened to the user and the stock since
\* setup, balance, available_shares and holding are those of setup again.
C14_RoundTrip ==
    \A k \in 1..(Len(transactions) - 1) :
        BuyThenSell(k) =>
            LET b == transactions[k]
                s == transactions[k + 1]
            IN
            /\ s.balance_after = b.balance_after - b.amount
            /\ (k = 2 /\ Len(transactions) = 3) =>
                    /\ cash[b.user_id] = transactions[1].balance_after
                    /\ stocks[b.ticker].available_shares = TotalShares[b.ticker]
                    /\ Held(holdings, b.user_id, b.ticker) = 0

\* After the deposit of setup, a market buy of 2 at price 1 and a market sell
\* of 2 at price 1 have been filled, and nothing else.
C14_Witness ==
    /\ Len(transactions) = 3
    /\ BuyThenSell(2)
    /\ transactions[2].quantity = 2 /\ transactions[2].price = 1
    /\ transactions[2].balance_after = 1
    /\ \E i, j \in DOMAIN orders :
            /\ i < j
            /\ orders[i].type = "market" /\ orders[i].side = "buy" /\ orders[i].status = "filled"
            /\ orders[j].type = "market" /\ orders[j].side = "sell" /\ orders[j].status = "filled"

\* Handler p commits its deposit_cash or withdraw_cash with this step.
CashCommit(p) ==
    /\ procs[p].op \in {"deposit_cash", "withdraw_cash"}
    /\ procs[p].pc = "commit"
    /\ procs'[p].pc = "done"

\* C15: every valid deposit and every valid withdrawal appends exactly one
\* transaction; its signed amount is +amount for a deposit and -amount for a
\* withdrawal, its balance_after is the balance right after the operation,
\* which is the balance before it plus (deposit) or minus (withdrawal) the
\* amount, and the balance is never negative.
C15_CashOperation ==
    [][\A p \in Procs :
          CashCommit(p) =>
              LET u == procs[p].user
                  signed == IF procs[p].op = "deposit_cash" THEN procs[p].amount
                            ELSE 0 - procs[p].amount
                  tx == transactions'[Len(transactions')]
              IN
              /\ transactions' = Append(transactions, tx)
              /\ tx.user_id = u /\ tx.amount = signed
              /\ tx.kind = (IF procs[p].op = "deposit_cash" THEN "deposit" ELSE "withdraw")
              /\ tx.balance_after = cash'[u]
              /\ cash'[u] = cash[u] + signed
              /\ cash'[u] >= 0
      ]_vars

RECURSIVE SumAmounts(_, _)
SumAmounts(txs, u) ==
    IF txs = <<>> THEN 0
    ELSE (IF Head(txs).user_id = u THEN Head(txs).amount ELSE 0) + SumAmounts(Tail(txs), u)

\* C19: whatever the interleaving of deposits, withdrawals and fills of one
\* user, the user's balance equals the sum of the signed amounts of the user's
\* transactions: no committed deposit, withdrawal, debit or credit is lost.
C19_CashConservation == \A u \in Users : cash[u] = SumAmounts(transactions, u)

\* The calls of place_order that must be refused: quantity <= 0, a side other
\* than buy/sell, a type other than market/limit, a limit order without a
\* positive price, an unknown user, an unknown ticker.
RefusedOrderArgs ==
    {a \in OrderArgs :
        \/ a[3] <= 0
        \/ lower(a[4]) \notin {"buy", "sell"}
        \/ lower(a[5]) \notin {"market", "limit"}
        \/ (lower(a[5]) = "limit" /\ (a[6] = None \/ a[6] <= 0))
        \/ a[1] \notin Users
        \/ upper(a[2]) \notin Tickers}

\* C16: place_order raises before anything is stored when quantity <= 0, the
\* side is not buy/sell, the type is not market/limit, a limit order has no
\* positive price, or the user or the ticker is unknown: no order is created
\* and no cash, holding, available_shares or transaction changes.  (A step in
\* which handler p takes a place_order call raises and changes nothing, or it
\* is not a call with such arguments.)
C16_PlaceOrderValidation ==
    [][\A p \in Procs :
          (procs[p].pc = "idle" /\ procs'[p].op = "place_order") =>
              \/ (UNCHANGED ledger /\ procs'[p].ret = "error" /\ procs'[p].pc = "done")
              \/ \A a \in RefusedOrderArgs : ~place_order(p, a[1], a[2], a[3], a[4], a[5], a[6])
      ]_vars

\* place_order has raised for a call made when orders already existed.
C16_Witness ==
    \E p \in Procs :
        /\ procs[p].op = "place_order" /\ procs[p].pc = "done"
        /\ procs[p].ret = "error"
        /\ Len(orders) >= 1
        /\ Cardinality(RefusedOrderArgs) = 7

\* Handler p has the result of a place_order call that passed validation.
Placed(p) ==
    /\ procs[p].op = "place_order"
    /\ procs[p].pc = "done"
    /\ procs[p].ret # "error"

\* place_order stores the order as pending and evaluates it once: the handler
\* goes from the insert to the evaluation of the new order, from there to
\* reading the order back, and from there to its return.
PlacedThenEvaluatedOnce ==
    \A p \in Procs :
        /\ (procs[p].pc = "idle" /\ procs'[p].op = "place_order" /\ procs'[p].ret # "error") =>
                /\ Len(orders') = Len(orders) + 1
                /\ orders'[Len(orders')].status = "pending"
                /\ procs'[p].oid = Len(orders')
                /\ procs'[p].pc = "ae_order"
        /\ (procs[p].op = "place_order" /\ procs[p].pc # "done") =>
                /\ procs'[p].op = "place_order"
                /\ procs'[p].oid = procs[p].oid
                /\ procs[p].pc = "ae_order" =>
                        procs'[p].pc \in {"ae_order", "ae_stock", "get_order"}
                /\ procs[p].pc \in AttemptPcs => procs'[p].pc \in AttemptPcs \cup {"get_order"}
                /\ procs[p].pc = "get_order" => procs'[p].pc \in {"get_order", "done"}

\* C17 as amended: a successful place_order stores the order as pending,
\* evaluates it once and returns the order's stored status, which is pending,
\* filled or rejected, or cancelled when a concurrent cancel_order cancelled
\* the order before the evaluation or after an evaluation that left it
\* pending; a market order whose evaluation found the market open is returned
\* filled or rejected.
C17_PlaceOrderSnapshotAmended ==
    /\ [](\A p \in Procs :
            Placed(p) =>
                LET o == orders[procs[p].oid] IN
                /\ procs[p].ret = o.status
                /\ procs[p].ret \in {"pending", "filled", "rejected", "cancelled"}
                /\ procs[p].ret = "cancelled" =>
                        \/ procs[p].market = "unread"
                        \/ procs[p].market = "closed"
                        \/ o.type = "limit"
                /\ procs[p].market = "unread" => procs[p].ret # "pending"
                /\ (o.type = "market" /\ procs[p].market = "open") =>
                        procs[p].ret \in {"filled", "rejected"})
    /\ [][PlacedThenEvaluatedOnce]_vars

\* place_order has returned a market order that its evaluation, made with the
\* market open, filled.
C17_Witness ==
    \E p \in Procs :
        /\ Placed(p)
        /\ procs[p].market = "open"
        /\ orders[procs[p].oid].type = "market"
        /\ procs[p].ret = "filled"

\* C17 as stated: the status place_order returns is the stored status and is
\* pending, filled or rejected; for a market order evaluated with the market
\* open it is filled or rejected.
C17_PlaceOrderSnapshot ==
    \A p \in Procs :
        Placed(p) =>
            LET o == orders[procs[p].oid] IN
            /\ procs[p].ret = o.status
            /\ procs[p].ret \in {"pending", "filled", "rejected"}
            /\ (o.type = "market" /\ procs[p].market = "open") =>
                    procs[p].ret \in {"filled", "rejected"}

\* The update_stock_price calls of the model that must fail: a price that is
\* not positive, an unknown ticker.
RefusedNewPriceArgs ==
    {a \in NewPriceArgs : a[2] <= 0 \/ upper(a[1]) \notin DOMAIN stocks}

\* Handler p takes the call update_stock_price in this step.
UpdateCalled(p) == procs[p].pc = "idle" /\ procs'[p].op = "update_stock_price"

\* Handler p is inside a call of update_stock_price whose price is stored.
InUpdate(p) == procs[p].op = "update_stock_price" /\ procs[p].pc \notin {"idle", "done"}

\* Handler p, in the sweep of update_stock_price, reads the stock row for the
\* evaluation of an order in this step.
SweepReadsStock(p) ==
    /\ procs[p].op = "update_stock_price"
    /\ procs[p].pc = "ae_stock"
    /\ procs'[p] # procs[p]

\* C18 as amended: update_stock_price with a price that is not positive or an
\* unknown ticker fails, changes nothing and evaluates no order; otherwise the
\* new price is stored before the sweep selects any order, and from then until
\* the call returns the ticker's price changes only when a concurrent
\* update_stock_price stores its own, so every evaluation of the sweep reads
\* the new price or the price of such a later update.
C18_UpdatePriceAmended ==
    [][\A p \in Procs :
          /\ UpdateCalled(p) =>
                \/ /\ procs'[p].ret # "error"
                   /\ procs'[p].pc = "trigger"
                   /\ stocks' = [stocks EXCEPT ![procs'[p].ticker].price = procs'[p].amount]
                   /\ procs'[p].amount > 0
                   /\ UNCHANGED <<cash, holdings, orders, transactions>>
                \/ /\ UNCHANGED ledger
                   /\ procs'[p].ret = "error" /\ procs'[p].pc = "done"
                   /\ \E a \in RefusedNewPriceArgs : update_stock_price(p, a[1], a[2])
          /\ (UpdateCalled(p) /\ procs'[p].ret # "error") =>
                \A a \in RefusedNewPriceArgs : ~update_stock_price(p, a[1], a[2])
          /\ InUpdate(p) =>
                \/ stocks'[procs[p].ticker].price = stocks[procs[p].ticker].price
                \/ \E q \in Procs \ {p} :
                        /\ UpdateCalled(q)
                        /\ procs'[q].ticker = procs[p].ticker
                        /\ stocks'[procs[p].ticker].price = procs'[q].amount
          /\ (SweepReadsStock(p) /\ procs'[p].pc \in AttemptPcs) =>
                procs'[p].fill_price =
                    fill_price(orders[procs[p].oid], stocks[procs[p].ticker].price)
      ]_vars

\* The sweep of an update_stock_price call has read the new price for the
\* evaluation of a pending order and goes on to fill it.
C18_Witness ==
    \E p \in Procs :
        /\ procs[p].op = "update_stock_price"
        /\ procs[p].pc \in AttemptPcs \ {"ae_stock"}
        /\ stocks[procs[p].ticker].price = procs[p].amount
        /\ procs[p].fill_price # None
        /\ procs[p].amount # 1

\* C18 as stated: every evaluation in the sweep of update_stock_price reads the
\* price that call stored.
C18_SweepSeesNewPrice ==
    [][\A p \in Procs :
          SweepReadsStock(p) => stocks[procs[p].ticker].price = procs[p].amount
      ]_vars

\* Handler p is evaluating order i past the status check, with the order row
\* locked.
Evaluating(p, i) == procs[p].oid = i /\ procs[p].pc \in AttemptPcs

\* An evaluation past its status check has the order row locked and the order
\* is pending: no cancel_order gets in before the evaluation ends.
EvaluatedWhilePending ==
    \A p \in Procs :
        procs[p].pc \in AttemptPcs =>
            /\ orders[procs[p].oid].status = "pending"
            /\ OrderRow(procs[p].oid) \in procs[p].held

\* A pending order is decided by one party: cancelled by a cancel_order that
\* returns true, with no other change, or filled or rejected by the handler
\* that ends its evaluation of it.
DecidedByOne ==
    \A i \in DOMAIN orders :
        (orders[i].status = "pending" /\ orders'[i].status # "pending") =>
            \/ /\ orders'[i].status = "cancelled"
               /\ \E p \in Procs : CancelStep(p, i) /\ procs'[p].ret = "true"
               /\ \A q \in Procs : ~Evaluating(q, i)
               /\ UNCHANGED <<stocks, cash, holdings, transactions>>
            \/ /\ orders'[i].status \in {"filled", "rejected"}
               /\ \E p \in Procs : EndsAttempt(p, i)
               /\ \A p \in Procs : ~CancelStep(p, i)

\* cancel_order returns true only for the step that cancels the order, and
\* false for an order that is already decided, which it leaves as it is.
CancelAnswers ==
    \A p \in Procs, i \in DOMAIN orders :
        CancelStep(p, i) =>
            /\ procs'[p].ret = "true" =>
                    orders[i].status = "pending" /\ orders'[i].status = "cancelled"
            /\ procs'[p].ret = "false" =>
                    /\ orders[i].status \in {"filled", "rejected", "cancelled"}
                    /\ UNCHANGED ledger

\* Once an order is cancelled, an evaluation of it changes nothing.
CancelledNoEffect ==
    \A p \in Procs :
        (/\ procs[p].pc = "ae_order"
         /\ orders[procs[p].oid].status = "cancelled"
         /\ procs'[p] # procs[p]) =>
            /\ UNCHANGED ledger
            /\ procs'[p].pc \notin AttemptPcs

\* C20: when cancel_order and evaluations of the same pending order interleave,
\* one of them decides it: either cancel_order returns true and the order is
\* cancelled with no cash, holding, available_shares or transaction effect
\* then or later, or cancel_order returns false and the order is filled or
\* rejected; an order is never cancelled and filled.
C20_CancelFillRace ==
    /\ [](/\ EvaluatedWhilePending
          /\ \A i \in DOMAIN orders :
                orders[i].status = "cancelled" => orders[i].fill_price = None)
    /\ [][DecidedByOne /\ CancelAnswers /\ CancelledNoEffect]_vars

\* cancel_order has cancelled an order that another handler is about to
\* evaluate.
C20_Witness ==
    \E p, q \in Procs :
        /\ procs[p].op = "cancel_order" /\ procs[p].pc = "done" /\ procs[p].ret = "true"
        /\ q # p
        /\ procs[q].pc = "ae_order"
        /\ procs[q].oid = procs[p].oid
        /\ orders[procs[p].oid].status = "cancelled"

\* What a fill records of its order, as the order shows it and as a buy or
\* sell transaction shows it.
OrderFill(o) ==
    [user_id |-> o.user_id, kind |-> o.side, ticker |-> o.ticker, quantity |-> o.quantity,
     price |-> o.fill_price,
     amount |-> IF o.side = "buy" THEN 0 - o.quantity * o.fill_price
                ELSE o.quantity * o.fill_price]

TransactionFill(t) ==
    [user_id |-> t.user_id, kind |-> t.kind, ticker |-> t.ticker, quantity |-> t.quantity,
     price |-> t.price, amount |-> t.amount]

\* C21: an order has fill_price and filled_at set exactly when it is filled,
\* and the buy and sell transactions correspond one to one to the filled
\* orders: as many transactions as filled orders carry each combination of
\* user, side, ticker, quantity, fill price and amount quantity * fill_price
\* (negative for a buy), so that an order that is pending, rejected or
\* cancelled has no transaction.
C21_OrderAudit ==
    /\ \A i \in DOMAIN orders :
            IF orders[i].status = "filled"
            THEN orders[i].fill_price # None /\ orders[i].filled_at
            ELSE orders[i].fill_price = None /\ ~orders[i].filled_at
    /\ \A i \in FilledOrders :
            Cardinality({j \in FilledOrders : OrderFill(orders[j]) = OrderFill(orders[i])})
                = Cardinality({k \in FillTransactions :
                                    TransactionFill(transactions[k]) = OrderFill(orders[i])})
    /\ \A k \in FillTransactions :
            \E i \in FilledOrders : TransactionFill(transactions[k]) = OrderFill(orders[i])

\* A buy and a sell are filled, each with its transaction, beside an order
\* that is not filled.
C21_Witness ==
    /\ \E i, j \in FilledOrders : orders[i].side = "buy" /\ orders[j].side = "sell"
    /\ Cardinality(FillTransactions) = 2
    /\ \E i \in DOMAIN orders : orders[i].status \in {"rejected", "cancelled", "pending"}

\* The price condition of limit order o is not met at market price mp.
PriceNotMet(o, mp) ==
    /\ o.type = "limit"
    /\ \/ o.side = "buy" /\ o.limit_price < mp
       \/ o.side = "sell" /\ o.limit_price > mp

\* Handler p reads the stock row for its evaluation in this step.
ReadsStock(p) == procs[p].pc = "ae_stock" /\ procs'[p] # procs[p]

\* C22: an evaluation that finds the price condition of its pending limit
\* order not met ends there, with the order pending and stocks, cash,
\* holdings, orders and transactions unchanged; no share, cash or holding check
\* is applied, so no order is rejected while its price condition is not met.
C22_NotFillableNoOp ==
    [][/\ \A p \in Procs :
            (ReadsStock(p) /\
                PriceNotMet(orders[procs[p].oid], stocks[orders[procs[p].oid].ticker].price)) =>
                    /\ UNCHANGED ledger
                    /\ orders'[procs[p].oid].status = "pending"
                    /\ procs'[p].pc \notin AttemptPcs
                    /\ procs'[p].held = {}
       /\ \A i \in DOMAIN orders :
            (orders[i].status = "pending" /\ orders'[i].status = "rejected") =>
                ~PriceNotMet(orders[i], stocks[orders[i].ticker].price)
      ]_vars

\* place_order has evaluated, with the market open, a limit sell above the
\* market price of a user without the shares, or a limit buy below the market
\* price when no shares are available, and the order is still pending.
C22_Witness ==
    \E p \in Procs :
        LET o == orders[procs[p].oid] IN
        /\ procs[p].op = "place_order" /\ procs[p].pc = "get_order"
        /\ procs[p].market = "open"
        /\ o.status = "pending"
        /\ PriceNotMet(o, stocks[o.ticker].price)
        /\ \/ o.side = "sell" /\ Held(holdings, o.user_id, o.ticker) < o.quantity
           \/ o.side = "buy" /\ stocks[o.ticker].available_shares < o.quantity

\* The pending orders, and those of ticker t.
PendingOrders == {i \in DOMAIN orders : orders[i].status = "pending"}

PendingFor(t) == {i \in PendingOrders : orders[i].ticker = t}

\* Handler p takes a step of its sweep or of the call that starts it.
SweepStep(p, op) == procs'[p] # procs[p] /\ procs'[p].op = op /\ procs[p].op \in {op, "idle"}

\* The sweep of update_stock_price selects the pending orders of its ticker
\* and no other; the sweep of trigger_pending_orders selects every pending
\* order.
SweepSelects ==
    \A p \in Procs :
        /\ (procs[p].pc = "trigger" /\ procs'[p].pc # "trigger") =>
                /\ Range(procs'[p].swept) = PendingFor(procs[p].ticker)
                /\ Len(procs'[p].swept) = Cardinality(PendingFor(procs[p].ticker))
        /\ (procs[p].pc = "idle" /\ procs'[p].op = "trigger_pending_orders") =>
                /\ Range(procs'[p].swept) = PendingOrders
                /\ Len(procs'[p].swept) = Cardinality(PendingOrders)

\* No step of an update_stock_price call changes an order, a price, a share
\* count or a holding of another ticker.
OtherTickersKept ==
    \A p \in Procs :
        SweepStep(p, "update_stock_price") =>
            LET t == procs'[p].ticker IN
            /\ \A u \in Tickers \ {t} : stocks'[u] = stocks[u]
            /\ \A i \in DOMAIN orders : orders[i].ticker # t => orders'[i] = orders[i]
            /\ \A u \in Tickers \ {t}, w \in Users :
                    Held(holdings', w, u) = Held(holdings, w, u)

\* A sweep evaluates the orders it selected, in turn, and one that is past the
\* status check is pending.
SweepEvaluatesSelected ==
    \A p \in Procs :
        (procs[p].op \in Sweeps /\ procs[p].pc \in {"ae_order"} \cup AttemptPcs) =>
            /\ procs[p].oid \in Range(procs[p].swept)
            /\ procs[p].op = "update_stock_price" => orders[procs[p].oid].ticker = procs[p].ticker
            /\ procs[p].pc \in AttemptPcs => orders[procs[p].oid].status = "pending"

\* When a sweep returns, each order it selected has been evaluated: it is
\* decided, or the market was closed for it, or its price condition is not
\* met.
SweepEvaluatedAll ==
    \A p \in Procs :
        (procs[p].op \in Sweeps /\ procs[p].pc = "done") =>
            \A i \in Range(procs[p].swept) :
                \/ orders[i].status # "pending"
                \/ i \in procs[p].closed
                \/ fill_price(orders[i], stocks[orders[i].ticker].price) = None

\* C23: update_stock_price evaluates the pending orders of its ticker only and
\* leaves the orders, prices, available shares and holdings of every other
\* ticker as they are; trigger_pending_orders evaluates every pending order
\* whatever its ticker; neither evaluates an order that is not pending.
C23_SweepScope ==
    /\ [](SweepEvaluatesSelected /\ SweepEvaluatedAll)
    /\ [][SweepSelects /\ OtherTickersKept]_vars

\* update_stock_price has returned after its sweep filled an order of its
\* ticker with the market open, and a market order of the other ticker, placed
\* while the market was closed, is still pending.
C23_Witness ==
    \E p \in Procs :
        /\ procs[p].op = "update_stock_price" /\ procs[p].pc = "done"
        /\ \E i \in Range(procs[p].swept) : orders[i].status = "filled"
        /\ \E j \in PendingOrders :
                /\ orders[j].ticker # procs[p].ticker
                /\ orders[j].type = "market"
                /\ ~InsufficientShares(stocks[orders[j].ticker].available_shares,
                                       orders[j].quantity)
                /\ ~InsufficientCash(cash[orders[j].user_id], orders[j].quantity,
                                     stocks[orders[j].ticker].price)

\* Handler p commits the fill of a buy in this step.
BuyCommits(p) == procs[p].pc = "ae_buy_commit" /\ procs'[p] # procs[p]

\* C24: there is at most one holding row for each user and ticker, whatever
\* the interleaving of fills, and the commit of a buy adds the bought quantity
\* to the row that exists or, when there is none, creates one row with that
\* quantity.
C24_OneHoldingRow ==
    /\ [](\A u \in Users, t \in Tickers : Cardinality(HoldingIdx(holdings, u, t)) <= 1)
    /\ [][\A p \in Procs :
            BuyCommits(p) =>
                LET o == orders[procs[p].oid]
                    h == HoldingFirst(holdings, o.user_id, o.ticker)
                IN
                holdings' =
                    IF h = 0
                    THEN Append(holdings, [user_id |-> o.user_id, ticker |-> o.ticker,
                                           quantity |-> o.quantity])
                    ELSE [holdings EXCEPT ![h].quantity = @ + o.quantity]
         ]_vars

\* Two place_order calls that ran side by side have each filled a first buy of
\* the same ticker for the same user, and the user has one holding row with
\* the sum.
C24_Witness ==
    \E p, q \in Procs :
        LET a == orders[procs[p].oid]
            b == orders[procs[q].oid]
        IN
        /\ p # q
        /\ procs[p].op = "place_order" /\ procs[p].pc = "get_order"
        /\ procs[q].op = "place_order" /\ procs[q].pc = "get_order"
        /\ a.status = "filled" /\ b.status = "filled"
        /\ a.side = "buy" /\ b.side = "buy"
        /\ a.user_id = b.user_id /\ a.ticker = b.ticker
        /\ Cardinality(FillTransactions) = 2
        /\ Cardinality(HoldingIdx(holdings, a.user_id, a.ticker)) = 1
        /\ Held(holdings, a.user_id, a.ticker) = a.quantity + b.quantity

\* The row the next statement of handler p must lock, as a set: empty when it
\* needs none.
Wanted(p) ==
    LET s == procs[p] IN
    IF s.pc = "commit" THEN {CashRow(s.user)}
    ELSE IF s.pc = "ae_order" THEN {OrderRow(s.oid)}
    ELSE IF s.pc = "ae_stock" THEN {StockRow(orders[s.oid].ticker)}
    ELSE IF s.pc \in {"ae_cash_buy", "ae_cash_sell"} THEN {CashRow(orders[s.oid].user_id)}
    ELSE IF s.pc = "ae_holding_sell" \/
            (s.pc = "ae_holding_buy" /\
                HoldingFirst(holdings, orders[s.oid].user_id, orders[s.oid].ticker) # 0)
         THEN {HoldingRow(orders[s.oid].user_id, orders[s.oid].ticker)}
    ELSE {}

\* Handler p waits for a row that handler q has locked.
WaitsFor(p, q) == p # q /\ Wanted(p) \cap procs[q].held # {}

\* No set of handlers waits in a circle: in every nonempty set of handlers
\* there is one that waits for none of the set.
NoWaitCycle ==
    \A S \in SUBSET Procs :
        S # {} => \E p \in S : \A q \in S : ~WaitsFor(p, q)

\* No call is in flight.
AllReturned == \A p \in Procs : procs[p].pc = "idle"

====
